---- MODULE Spec2Model ----
(***************************************************************************)
(* GG.deals price alert bot (src/bot.py): the persisted watchlist, the     *)
(* watch / unwatch / price commands and the price_checker background task. *)
(*                                                                         *)
(* The bot runs on one asyncio event loop: a coroutine runs atomically     *)
(* from one await to the next, and other coroutines run only while it is   *)
(* suspended in an await (fetch_prices, channel.send, asyncio.sleep).      *)
(***************************************************************************)
EXTENDS Integers, Sequences, FiniteSets, TLC

(***************************************************************************)
(* Bounds of the model.                                                    *)
(***************************************************************************)
\* Steam app ids are 1..MaxKeys.
MaxKeys == 3
\* Keys per request: bot.py:300-301 use 100; the model scales it down so
\* that a watchlist of MaxKeys keys needs more than one batch.
BatchLimit == 2
\* price_checker iterations that may start.
MaxCycles == 2
\* Commands (watch, unwatch, price) that may be issued.
MaxCmds == 2

AppIds == 1..MaxKeys

(***************************************************************************)
(* Text values.  A text is a sequence of one-character strings; None is    *)
(* Python's None / JSON null, Missing marks a key a JSON object lacks.     *)
(***************************************************************************)
None == <<"None">>
Missing == <<"missing">>

\* dict.get(key, default) on a JSON object whose absent keys are Missing.
Get(value, default) == IF value = Missing THEN default ELSE value

\* Python truthiness of None or a str: None and "" are falsy.
Truthy(v) == v # None /\ v # <<>>

DigitChars == <<"0", "1", "2", "3", "4", "5", "6", "7", "8", "9">>
IsDigit(c) == \E d \in 1..10 : DigitChars[d] = c
DigitVal(c) == (CHOOSE d \in 1..10 : DigitChars[d] = c) - 1

\* The value of a digit string, "" being 0.
RECURSIVE DigitsValue(_)
DigitsValue(s) ==
    IF s = <<>> THEN 0
    ELSE 10 * DigitsValue(SubSeq(s, 1, Len(s) - 1)) + DigitVal(s[Len(s)])

\* Fraction digits the model's prices carry; Float is exact up to there.
FracDigits == 3

RECURSIVE Pow10(_)
Pow10(n) == IF n = 0 THEN 1 ELSE 10 * Pow10(n - 1)

ValueError == -1

\* float(s) for a plain decimal text (digits, at most one ".", at least one
\* digit, at most FracDigits fraction digits), as a count of 10^-FracDigits;
\* ValueError for any other text.  Decimals this short convert to distinct
\* doubles in the same order, so comparing the counts is comparing the floats.
Float(s) ==
    LET dots == {p \in 1..Len(s) : s[p] = "."}
        dot == IF dots = {} THEN Len(s) + 1 ELSE CHOOSE p \in dots : TRUE
        whole == SubSeq(s, 1, dot - 1)
        frac == SubSeq(s, dot + 1, Len(s))
    IN  IF /\ Cardinality(dots) <= 1
           /\ \A p \in 1..Len(s) : p \in dots \/ IsDigit(s[p])
           /\ Len(whole) + Len(frac) > 0
           /\ Len(frac) <= FracDigits
        THEN DigitsValue(whole) * Pow10(FracDigits)
                 + DigitsValue(frac) * Pow10(FracDigits - Len(frac))
        ELSE ValueError

(***************************************************************************)
(* The price source.  Catalog lists the game records the GG.deals API may  *)
(* return for an app id: "title", "url" and the fields of "prices".        *)
(***************************************************************************)
P_9_99 == <<"9", ".", "9", "9">>
P_9_00 == <<"9", ".", "0", "0">>
P_4_99 == <<"4", ".", "9", "9">>
P_4_990 == <<"4", ".", "9", "9", "0">>
P_4_50 == <<"4", ".", "5", "0">>
P_bad == <<"n", "/", "a">>

GameRecord(title, url, cr, ck, hr, hk, cur) ==
    [title |-> title, url |-> url, currentRetail |-> cr, currentKeyshops |-> ck,
     historicalRetail |-> hr, historicalKeyshops |-> hk, currency |-> cur]

Catalog ==
    << \* 1: the regular prices, every field present
       GameRecord(<<"Title">>, <<"Url">>, P_9_99, P_9_00, P_9_99, P_9_00, <<"EUR">>),
       \* 2: both channels cheaper; title, url and currency missing
       GameRecord(Missing, Missing, P_4_99, P_4_50, P_4_99, Missing, Missing),
       \* 3: retail price null, keyshops cheaper; title, url and currency null
       GameRecord(None, None, None, P_4_50, None, None, None),
       \* 4: retail price malformed, keyshops cheaper
       GameRecord(<<"Title">>, <<"Url">>, P_bad, P_4_50, P_4_99, P_4_50, <<"EUR">>),
       \* 5: retail cheaper (written with a trailing zero), keyshops malformed
       GameRecord(<<"Title">>, <<"Url">>, P_4_990, P_bad, P_4_99, P_4_50, <<"EUR">>) >>

NoRecord == 0
RecordIds == 1..Len(Catalog)

\* Bodies the API may answer a request for ids with, when it holds the
\* records of offered: HTTP 429, HTTP 500, an unsuccessful envelope, or any
\* subset of the ids with a record each.
HttpResponses(ids, offered) ==
    {[status |-> s, success |-> FALSE, data |-> [k \in ids |-> NoRecord]] : s \in {200, 429, 500}}
        \cup {[status |-> 200, success |-> TRUE, data |-> m] :
                  m \in [ids -> {NoRecord} \cup offered]}

Range(s) == {s[p] : p \in 1..Len(s)}

\* fetch_prices without its test for status 429: raise_for_status raises.
fetch_pricesRaisesOn429(app_ids, resp) ==
    IF app_ids = <<>>
    THEN [raised |-> FALSE, prices |-> [k \in {} |-> NoRecord]]
    ELSE IF resp.status # 200
    THEN [raised |-> TRUE, prices |-> [k \in Range(app_ids) |-> NoRecord]]
    ELSE IF ~resp.success
    THEN [raised |-> FALSE, prices |-> [k \in Range(app_ids) |-> NoRecord]]
    ELSE [raised |-> FALSE, prices |-> resp.data]

\* fetch_prices(session, app_ids): the dict returned, or a raised error.
fetch_prices(app_ids, resp) ==
    IF app_ids = <<>>
    THEN [raised |-> FALSE, prices |-> [k \in {} |-> NoRecord]]
    ELSE IF resp.status = 429
    THEN [raised |-> FALSE, prices |-> [k \in Range(app_ids) |-> NoRecord]]
    ELSE IF resp.status # 200
    THEN [raised |-> TRUE, prices |-> [k \in Range(app_ids) |-> NoRecord]]
    ELSE IF ~resp.success
    THEN [raised |-> FALSE, prices |-> [k \in Range(app_ids) |-> NoRecord]]
    ELSE [raised |-> FALSE, prices |-> resp.data]

(***************************************************************************)
(* The watchlist document: data["games"], a dict in insertion order.       *)
(***************************************************************************)
EmptyData == [order |-> <<>>, games |-> [k \in {} |-> None]]

Has(d, k) == k \in DOMAIN d.games

\* data["games"][k] = entry
Put(d, k, entry) ==
    [order |-> IF Has(d, k) THEN d.order ELSE Append(d.order, k),
     games |-> [x \in DOMAIN d.games \cup {k} |-> IF x = k THEN entry ELSE d.games[x]]]

\* del data["games"][k]
Del(d, k) ==
    [order |-> SelectSeq(d.order, LAMBDA x : x # k),
     games |-> [x \in DOMAIN d.games \ {k} |-> d.games[x]]]

IdText(k) == <<ToString(k)>>
DefaultUrl(k) == <<"https://gg.deals/steam/app/", ToString(k), "/">>

\* The entry watch_game builds from the fetched game record (game_name "").
NewEntry(k, game_data, author) ==
    [name |-> Get(game_data.title, IdText(k)),
     last_retail |-> Get(game_data.currentRetail, None),
     last_keyshops |-> Get(game_data.currentKeyshops, None),
     historical_retail |-> Get(game_data.historicalRetail, None),
     historical_keyshops |-> Get(game_data.historicalKeyshops, None),
     currency |-> Get(game_data.currency, <<"USD">>),
     url |-> Get(game_data.url, DefaultUrl(k)),
     added_by |-> author]

(***************************************************************************)
(* price_checker's comparison of one game (bot.py:309-372).                *)
(***************************************************************************)
\* PriceDropped with <= for <.
PriceNotHigher(new, old) ==
    /\ Truthy(new) /\ Truthy(old)
    /\ Float(new) # ValueError /\ Float(old) # ValueError
    /\ Float(new) <= Float(old)

\* bot.py:321-328 and 331-338: the channel's price dropped.
PriceDropped(new, old) ==
    /\ Truthy(new) /\ Truthy(old)
    /\ Float(new) # ValueError /\ Float(old) # ValueError
    /\ Float(new) < Float(old)

\* bot.py:311
NewCurrency(p, stored) == Get(p.currency, stored.currency)

Drop(channel, old, new, currency) ==
    [channel |-> channel, old |-> old, new |-> new, currency |-> currency]

\* Alerts with the keyshops comparison made first.
AlertsKeyshopsFirst(p, stored) ==
    LET new_retail == Get(p.currentRetail, None)
        new_keyshops == Get(p.currentKeyshops, None)
        currency == NewCurrency(p, stored)
    IN  (IF PriceDropped(new_keyshops, stored.last_keyshops)
         THEN <<Drop("keyshops", stored.last_keyshops, new_keyshops, currency)>>
         ELSE <<>>)
        \o (IF PriceDropped(new_retail, stored.last_retail)
            THEN <<Drop("retail", stored.last_retail, new_retail, currency)>>
            ELSE <<>>)

\* Alerts with one handler around both comparisons: a retail price float()
\* rejects skips the keyshops comparison too.
AlertsOneHandler(p, stored) ==
    LET new_retail == Get(p.currentRetail, None)
        new_keyshops == Get(p.currentKeyshops, None)
        currency == NewCurrency(p, stored)
        rejected == /\ Truthy(new_retail) /\ Truthy(stored.last_retail)
                    /\ (Float(new_retail) = ValueError \/ Float(stored.last_retail) = ValueError)
    IN  (IF PriceDropped(new_retail, stored.last_retail)
         THEN <<Drop("retail", stored.last_retail, new_retail, currency)>>
         ELSE <<>>)
        \o (IF ~rejected /\ PriceDropped(new_keyshops, stored.last_keyshops)
            THEN <<Drop("keyshops", stored.last_keyshops, new_keyshops, currency)>>
            ELSE <<>>)

\* bot.py:318-338: the drop descriptions of one game, in the order appended.
Alerts(p, stored) ==
    LET new_retail == Get(p.currentRetail, None)
        new_keyshops == Get(p.currentKeyshops, None)
        currency == NewCurrency(p, stored)
    IN  (IF PriceDropped(new_retail, stored.last_retail)
         THEN <<Drop("retail", stored.last_retail, new_retail, currency)>>
         ELSE <<>>)
        \o (IF PriceDropped(new_keyshops, stored.last_keyshops)
            THEN <<Drop("keyshops", stored.last_keyshops, new_keyshops, currency)>>
            ELSE <<>>)

\* Updated without the advance of the two last-observed prices.
UpdatedKeepsPrices(p, stored) ==
    [stored EXCEPT
        !.currency = NewCurrency(p, stored),
        !.historical_retail =
            IF Truthy(Get(p.historicalRetail, None)) THEN p.historicalRetail ELSE @,
        !.historical_keyshops =
            IF Truthy(Get(p.historicalKeyshops, None)) THEN p.historicalKeyshops ELSE @]

\* bot.py:365-372: the stored entry after the game was compared.
Updated(p, stored) ==
    [stored EXCEPT
        !.last_retail = Get(p.currentRetail, None),
        !.last_keyshops = Get(p.currentKeyshops, None),
        !.currency = NewCurrency(p, stored),
        !.historical_retail =
            IF Truthy(Get(p.historicalRetail, None)) THEN p.historicalRetail ELSE @,
        !.historical_keyshops =
            IF Truthy(Get(p.historicalKeyshops, None)) THEN p.historicalKeyshops ELSE @]

Min(a, b) == IF a < b THEN a ELSE b

\* Batch with the slice one key too long.
BatchOneMore(app_ids, i) == SubSeq(app_ids, i, Min(i + BatchLimit, Len(app_ids)))

\* bot.py:300-301: app_ids[i : i + 100], i counted from 1 here.
Batch(app_ids, i) == SubSeq(app_ids, i, Min(i + BatchLimit - 1, Len(app_ids)))

\* bot.py:375: another batch follows the one starting at i.
MoreBatches(app_ids, i) == i + BatchLimit <= Len(app_ids)

(***************************************************************************)
(* State.                                                                  *)
(***************************************************************************)
VARIABLES
    file,       \* DATA_FILE: the persisted watchlist document
    offered,    \* the catalog records the price source holds in this run
    quota,      \* the commands users issue in this run
    watchers,   \* watch_game coroutines awaiting fetch_prices
    reply,      \* the outcome of the command that finished in this step
    ncmds,      \* commands issued so far
    pc,         \* where price_checker is: idle, fetch, eval, send, sleep, save, done
    data,       \* price_checker's data (loaded at bot.py:286)
    i,          \* price_checker's i, counted from 1
    pos,        \* position in the batch of the app_id being compared
    prices,     \* price_checker's prices (the dict fetch_prices returned)
    outcome,    \* how the last iteration ended: none, empty, nochannel, saved, raised
    ncycles,    \* iterations of price_checker started so far
    sent,       \* the alerts channel.send delivered in this iteration, oldest first
    requests,   \* the batches this iteration requested, oldest first
    sleeps,     \* the inter-batch sleeps of this iteration
    alerted,    \* history: the drops alerted since the file was last written
    loaded,     \* history: the document this iteration loaded
    got,        \* history: the record each compared game had in this iteration
    limited,    \* history: the games of the batches answered 429 in this iteration
    prev        \* history: got, limited and the document saved by the iteration before,
                \* when that one ran to its save; the document it loaded, when it
                \* ended for want of a channel

vars == <<file, offered, quota, watchers, reply, ncmds, pc, data, i, pos, prices,
          outcome, ncycles, sent, requests, sleeps, alerted, loaded, got, limited,
          prev>>

cmdVars == <<file, watchers, ncmds, alerted>>
cycleVars == <<pc, data, i, pos, prices, outcome, ncycles, sent, requests,
               sleeps, loaded, got, limited, prev>>

\* A watchlist of the first n app ids, as watch commands that looked up
\* catalog record 1 stored them.
InitialData(n) ==
    [order |-> [p \in 1..n |-> p],
     games |-> [k \in 1..n |-> NewEntry(k, Catalog[1], 0)]]

\* What a run is given: the watchlist on disk, the records of the source and
\* the number of commands.  A run has either every record and no command, or
\* one kind of record: with no command, with commands on an empty watchlist,
\* or (the record with both prices lower) with commands on a full one.
Workloads ==
    {[keys |-> BatchLimit, offered |-> RecordIds, quota |-> 0]}
        \cup {[keys |-> MaxKeys, offered |-> {r}, quota |-> 0] : r \in RecordIds}
        \cup {[keys |-> 0, offered |-> {r}, quota |-> MaxCmds] : r \in RecordIds}
        \cup {[keys |-> MaxKeys, offered |-> {2}, quota |-> MaxCmds]}

NoGot == [k \in AppIds |-> NoRecord]
NoPrev == [saved |-> FALSE, nochannel |-> FALSE, got |-> NoGot, limited |-> {},
           data |-> EmptyData]
NoReply == [cmd |-> "", key |-> 0, result |-> "", saved |-> FALSE]
NoPrices == [k \in {} |-> NoRecord]

Init ==
    /\ \E w \in Workloads :
           /\ file = InitialData(w.keys)
           /\ offered = w.offered
           /\ quota = w.quota
    /\ watchers = {}
    /\ reply = NoReply
    /\ ncmds = 0
    /\ pc = "idle"
    /\ data = EmptyData
    /\ i = 1
    /\ pos = 1
    /\ prices = NoPrices
    /\ outcome = "none"
    /\ ncycles = 0
    /\ sent = <<>>
    /\ requests = <<>>
    /\ sleeps = 0
    /\ alerted = {}
    /\ loaded = EmptyData
    /\ got = NoGot
    /\ limited = {}
    /\ prev = NoPrev

\* The event loop runs a command only while price_checker is suspended.
Suspended == pc \in {"idle", "fetch", "send", "sleep"}

(***************************************************************************)
(* Commands.                                                               *)
(***************************************************************************)
Reply(cmd, k, result, saved) ==
    [cmd |-> cmd, key |-> k, result |-> result, saved |-> saved]

\* save_data(d): the file is replaced; a failed write (OSError) leaves it.
save_data(d, ok) ==
    IF ok THEN file' = d /\ alerted' = {}
    ELSE UNCHANGED <<file, alerted>>

\* bot.py:134-142: watch_game up to its await of fetch_prices.  The users
\* are numbered as their commands are.
WatchStart(k) ==
    /\ Suspended
    /\ ncmds < quota
    /\ ncmds' = ncmds + 1
    /\ IF Has(file, k)
       THEN /\ reply' = Reply("watch", k, "AlreadyWatched", FALSE)
            /\ UNCHANGED watchers
       ELSE /\ watchers' = watchers \cup
                    {[key |-> k, data |-> file, author |-> ncmds + 1]}
            /\ reply' = NoReply
    /\ UNCHANGED <<file, alerted, offered, quota>>
    /\ UNCHANGED cycleVars

\* WatchOutcome saving the loaded document when no record was found.
WatchOutcomeSavesUnfound(w, game_data) ==
    IF game_data = NoRecord
    THEN [result |-> "NotFound", save |-> TRUE, data |-> w.data]
    ELSE [result |-> "Watching", save |-> TRUE,
          data |-> Put(w.data, w.key, NewEntry(w.key, Catalog[game_data], w.author))]

\* bot.py:144-163: what watch_game does with the looked-up record.
WatchOutcome(w, game_data) ==
    IF game_data = NoRecord
    THEN [result |-> "NotFound", save |-> FALSE, data |-> w.data]
    ELSE [result |-> "Watching", save |-> TRUE,
          data |-> Put(w.data, w.key, NewEntry(w.key, Catalog[game_data], w.author))]

\* bot.py:142-175: watch_game from the return of fetch_prices on.
WatchReturn(w, resp, ok) ==
    /\ Suspended
    /\ w \in watchers
    /\ watchers' = watchers \ {w}
    /\ LET r == fetch_prices(<<w.key>>, resp)
           out == WatchOutcome(w, r.prices[w.key])
       IN  IF r.raised
           THEN /\ reply' = Reply("watch", w.key, "Raised", FALSE)
                /\ UNCHANGED <<file, alerted>>
           ELSE IF ~out.save
           THEN /\ reply' = Reply("watch", w.key, out.result, FALSE)
                /\ UNCHANGED <<file, alerted>>
           ELSE /\ save_data(out.data, ok)
                /\ reply' = Reply("watch", w.key, IF ok THEN out.result ELSE "Raised", TRUE)
    /\ UNCHANGED <<ncmds, offered, quota>>
    /\ UNCHANGED cycleVars

\* UnwatchOutcome without the membership test.
UnwatchOutcomeUnchecked(d, k) ==
    [result |-> "Removed", save |-> TRUE, data |-> Del(d, k)]

\* bot.py:184-192: what unwatch_game does with the loaded document.
UnwatchOutcome(d, k) ==
    IF ~Has(d, k)
    THEN [result |-> "NotWatched", save |-> FALSE, data |-> d]
    ELSE [result |-> "Removed", save |-> TRUE, data |-> Del(d, k)]

\* bot.py:179-194: unwatch_game.
Unwatch(k, ok) ==
    /\ Suspended
    /\ ncmds < quota
    /\ ncmds' = ncmds + 1
    /\ LET out == UnwatchOutcome(file, k)
       IN  IF ~out.save
           THEN /\ reply' = Reply("unwatch", k, out.result, FALSE)
                /\ UNCHANGED <<file, alerted>>
           ELSE /\ save_data(out.data, ok)
                /\ reply' = Reply("unwatch", k, IF ok THEN out.result ELSE "Raised", TRUE)
    /\ UNCHANGED <<watchers, offered, quota>>
    /\ UNCHANGED cycleVars

\* check_price storing the record it looked up, as watch_game does.
CheckPriceStores(k, resp) ==
    /\ Suspended
    /\ ncmds < quota
    /\ ncmds' = ncmds + 1
    /\ LET r == fetch_prices(<<k>>, resp)
       IN  IF r.raised \/ r.prices[k] = NoRecord
           THEN /\ reply' = Reply("price", k, IF r.raised THEN "Raised" ELSE "NotFound", FALSE)
                /\ UNCHANGED <<file, alerted>>
           ELSE /\ save_data(Put(file, k, NewEntry(k, Catalog[r.prices[k]], ncmds + 1)), TRUE)
                /\ reply' = Reply("price", k, "Price", FALSE)
    /\ UNCHANGED <<watchers, offered, quota>>
    /\ UNCHANGED cycleVars

\* bot.py:227-256: check_price.
CheckPrice(k, resp) ==
    /\ Suspended
    /\ ncmds < quota
    /\ ncmds' = ncmds + 1
    /\ LET r == fetch_prices(<<k>>, resp)
       IN  reply' = Reply("price", k,
                          IF r.raised THEN "Raised"
                          ELSE IF r.prices[k] = NoRecord THEN "NotFound"
                          ELSE "Price",
                          FALSE)
    /\ UNCHANGED <<file, alerted, watchers, offered, quota>>
    /\ UNCHANGED cycleVars

(***************************************************************************)
(* price_checker (bot.py:283-378), one action per stretch between awaits.  *)
(***************************************************************************)
\* CycleStart without the test for an empty watchlist.
CycleStartAnyway(channelFound) ==
    /\ pc = "idle"
    /\ ncycles < MaxCycles
    /\ ncycles' = ncycles + 1
    /\ data' = file
    /\ loaded' = file
    /\ IF ~channelFound
       THEN pc' = "done" /\ outcome' = "nochannel"
       ELSE pc' = "fetch" /\ outcome' = "running"
    /\ reply' = NoReply
    /\ UNCHANGED <<i, pos, prices, sent, requests, sleeps, got, limited, prev>>
    /\ UNCHANGED <<cmdVars, offered, quota>>

\* CycleStart without the test of the channel.
CycleStartNoChannelTest(channelFound) ==
    /\ pc = "idle"
    /\ ncycles < MaxCycles
    /\ ncycles' = ncycles + 1
    /\ data' = file
    /\ loaded' = file
    /\ IF file.order = <<>>
       THEN pc' = "done" /\ outcome' = "empty"
       ELSE pc' = "fetch" /\ outcome' = "running"
    /\ reply' = NoReply
    /\ UNCHANGED <<i, pos, prices, sent, requests, sleeps, got, limited, prev>>
    /\ UNCHANGED <<cmdVars, offered, quota>>

\* bot.py:286-296: a tick of the loop starts an iteration.
CycleStart(channelFound) ==
    /\ pc = "idle"
    /\ ncycles < MaxCycles
    /\ ncycles' = ncycles + 1
    /\ data' = file
    /\ loaded' = file
    /\ IF file.order = <<>>
       THEN pc' = "done" /\ outcome' = "empty"
       ELSE IF ~channelFound
       THEN pc' = "done" /\ outcome' = "nochannel"
       ELSE pc' = "fetch" /\ outcome' = "running"
    /\ reply' = NoReply
    /\ UNCHANGED <<i, pos, prices, sent, requests, sleeps, got, limited, prev>>
    /\ UNCHANGED <<cmdVars, offered, quota>>

\* bot.py:301-302: fetch_prices returns or raises for the batch at i.
FetchReturn(resp) ==
    /\ pc = "fetch"
    /\ LET batch == Batch(data.order, i)
           r == fetch_prices(batch, resp)
       IN  /\ requests' = Append(requests, batch)
           /\ limited' = IF resp.status = 429 THEN limited \cup Range(batch) ELSE limited
           /\ IF r.raised
              THEN pc' = "done" /\ outcome' = "raised" /\ UNCHANGED prices
              ELSE pc' = "eval" /\ prices' = r.prices /\ UNCHANGED outcome
    /\ reply' = NoReply
    /\ UNCHANGED <<data, i, pos, ncycles, sent, sleeps, loaded, got, prev>>
    /\ UNCHANGED <<cmdVars, offered, quota>>

\* AfterGame forgetting the prices of a game the response lacks.
AfterGameForgets(stored, rec) ==
    IF rec = NoRecord
    THEN [stored EXCEPT !.last_retail = None, !.last_keyshops = None]
    ELSE Updated(Catalog[rec], stored)

\* bot.py:304-307: the entry of a game after its turn in the batch loop.
AfterGame(stored, rec) ==
    IF rec = NoRecord THEN stored ELSE Updated(Catalog[rec], stored)

\* bot.py:304-376: the batch loop up to the next await, one game a step.
Eval ==
    /\ pc = "eval"
    /\ LET batch == Batch(data.order, i)
       IN  IF pos > Len(batch)
           THEN /\ pc' = IF MoreBatches(data.order, i) THEN "sleep" ELSE "save"
                /\ prices' = NoPrices
                /\ pos' = 1
                /\ UNCHANGED <<data, got>>
           ELSE LET app_id == batch[pos]
                    rec == prices[app_id]
                    stored == data.games[app_id]
                IN  /\ got' = [got EXCEPT ![app_id] = rec]
                    /\ IF rec # NoRecord /\ Alerts(Catalog[rec], stored) # <<>>
                       THEN pc' = "send" /\ UNCHANGED <<data, pos>>
                       ELSE /\ data' = [data EXCEPT !.games[app_id] = AfterGame(stored, rec)]
                            /\ pos' = pos + 1
                            /\ UNCHANGED pc
                    /\ UNCHANGED prices
    /\ reply' = NoReply
    /\ UNCHANGED <<i, outcome, ncycles, sent, requests, sleeps, loaded, limited, prev>>
    /\ UNCHANGED <<cmdVars, offered, quota>>

DropId(app_id, d) == [key |-> app_id, channel |-> d.channel, old |-> d.old, new |-> d.new]

\* bot.py:340-362: the message channel.send is given for a game; repeat
\* tells that one of its drops was alerted before and the file not written
\* since.
Alert(app_id, rec, stored) ==
    LET drops == Alerts(Catalog[rec], stored)
    IN  [key |-> app_id, drops |-> drops,
         repeat |-> \E p \in 1..Len(drops) : DropId(app_id, drops[p]) \in alerted]

\* bot.py:362-372: channel.send returns or raises.
SendReturn(ok) ==
    /\ pc = "send"
    /\ LET app_id == Batch(data.order, i)[pos]
           rec == prices[app_id]
           stored == data.games[app_id]
           alert == Alert(app_id, rec, stored)
       IN  IF ok
           THEN /\ sent' = Append(sent, alert)
                /\ alerted' = alerted \cup
                       {DropId(app_id, alert.drops[p]) : p \in 1..Len(alert.drops)}
                /\ data' = [data EXCEPT !.games[app_id] = AfterGame(stored, rec)]
                /\ pos' = pos + 1
                /\ pc' = "eval"
                /\ UNCHANGED outcome
           ELSE /\ pc' = "done"
                /\ outcome' = "raised"
                /\ UNCHANGED <<sent, alerted, data, pos>>
    /\ reply' = NoReply
    /\ UNCHANGED <<i, prices, ncycles, requests, sleeps, loaded, got, limited, prev>>
    /\ UNCHANGED <<file, watchers, ncmds, offered, quota>>

\* bot.py:375-376: asyncio.sleep(2) returns.
SleepReturn ==
    /\ pc = "sleep"
    /\ sleeps' = sleeps + 1
    /\ i' = i + BatchLimit
    /\ pc' = "fetch"
    /\ reply' = NoReply
    /\ UNCHANGED <<data, pos, prices, outcome, ncycles, sent, requests, loaded, got,
                   limited, prev>>
    /\ UNCHANGED <<cmdVars, offered, quota>>

\* Save writing its entries into the watchlist the file holds by then.
SaveMerges(ok) ==
    /\ pc = "save"
    /\ save_data([order |-> file.order,
                  games |-> [k \in DOMAIN file.games |->
                                IF k \in DOMAIN data.games THEN data.games[k]
                                ELSE file.games[k]]], ok)
    /\ pc' = "done"
    /\ outcome' = IF ok THEN "saved" ELSE "raised"
    /\ reply' = NoReply
    /\ UNCHANGED <<data, i, pos, prices, ncycles, sent, requests, sleeps, loaded, got,
                   limited, prev>>
    /\ UNCHANGED <<watchers, ncmds, offered, quota>>

\* bot.py:378: save_data(data).
Save(ok) ==
    /\ pc = "save"
    /\ save_data(data, ok)
    /\ pc' = "done"
    /\ outcome' = IF ok THEN "saved" ELSE "raised"
    /\ reply' = NoReply
    /\ UNCHANGED <<data, i, pos, prices, ncycles, sent, requests, sleeps, loaded, got,
                   limited, prev>>
    /\ UNCHANGED <<watchers, ncmds, offered, quota>>

\* price_checker returns (or its exception leaves it) and the loop waits
\* for the next tick.
CycleReturn ==
    /\ pc = "done"
    /\ pc' = "idle"
    /\ prev' = IF outcome = "saved"
               THEN [saved |-> TRUE, nochannel |-> FALSE, got |-> got,
                     limited |-> limited, data |-> data]
               ELSE IF outcome = "nochannel"
               THEN [NoPrev EXCEPT !.nochannel = TRUE, !.data = data]
               ELSE NoPrev
    /\ data' = EmptyData
    /\ i' = 1
    /\ pos' = 1
    /\ prices' = NoPrices
    /\ sent' = <<>>
    /\ requests' = <<>>
    /\ sleeps' = 0
    /\ got' = NoGot
    /\ limited' = {}
    /\ loaded' = EmptyData
    /\ reply' = NoReply
    /\ UNCHANGED <<outcome, ncycles>>
    /\ UNCHANGED <<cmdVars, offered, quota>>

Next ==
    \/ \E k \in AppIds : WatchStart(k)
    \/ \E w \in watchers, ok \in BOOLEAN :
           \E resp \in HttpResponses({w.key}, offered) : WatchReturn(w, resp, ok)
    \/ \E k \in AppIds, ok \in BOOLEAN : Unwatch(k, ok)
    \/ \E k \in AppIds : \E resp \in HttpResponses({k}, offered) : CheckPrice(k, resp)
    \/ \E channelFound \in BOOLEAN : CycleStart(channelFound)
    \/ \E resp \in HttpResponses(Range(Batch(data.order, i)), offered) : FetchReturn(resp)
    \/ Eval
    \/ \E ok \in BOOLEAN : SendReturn(ok)
    \/ SleepReturn
    \/ \E ok \in BOOLEAN : Save(ok)
    \/ CycleReturn

Spec == Init /\ [][Next]_vars

(***************************************************************************)
(* Properties.                                                             *)
(***************************************************************************)
Channels == {"retail", "keyshops"}

\* The stored last-observed price of a channel, and the fetched current one.
Last(entry, ch) == IF ch = "retail" THEN entry.last_retail ELSE entry.last_keyshops
Current(rec, ch) ==
    Get(IF ch = "retail" THEN Catalog[rec].currentRetail ELSE Catalog[rec].currentKeyshops,
        None)

IsDecimal(v) == Truthy(v) /\ Float(v) # ValueError

\* price_checker is awaiting channel.send for app id k.
Pending(k) == pc = "send" /\ Batch(data.order, i)[pos] = k

\* Game k was compared with a fetched record in this iteration, and its
\* alert, if it had one, was delivered.
Compared(k) ==
    /\ outcome \in {"running", "saved"}
    /\ k \in DOMAIN loaded.games
    /\ got[k] # NoRecord
    /\ ~Pending(k)

\* The drop descriptions of channel ch delivered for game k in this iteration.
DropsSent(k, ch) ==
    {<<p, q>> \in (1..Len(sent)) \X (1..2) :
        /\ sent[p].key = k
        /\ q <= Len(sent[p].drops)
        /\ sent[p].drops[q].channel = ch}

\* C1: a compared game whose stored and fetched price of a channel both parse
\* as decimals got exactly one drop description of that channel, old -> new,
\* when new < old, and none when new >= old.
C1_DropIffLower ==
    \A k \in AppIds : \A ch \in Channels :
        Compared(k) =>
            LET old == Last(loaded.games[k], ch)
                new == Current(got[k], ch)
            IN  (IsDecimal(old) /\ IsDecimal(new)) =>
                    /\ Cardinality(DropsSent(k, ch)) = IF Float(new) < Float(old) THEN 1 ELSE 0
                    /\ \A d \in DropsSent(k, ch) :
                           /\ sent[d[1]].drops[d[2]].old = old
                           /\ sent[d[1]].drops[d[2]].new = new

C1_Witness ==
    /\ pc = "done" /\ outcome = "saved"
    /\ \E k \in AppIds :
           /\ Compared(k)
           /\ Cardinality(DropsSent(k, "retail")) = 1
           /\ Current(got[k], "retail") = P_4_990
    /\ \E k \in AppIds : \E ch \in Channels :
           /\ Compared(k)
           /\ IsDecimal(Last(loaded.games[k], ch)) /\ IsDecimal(Current(got[k], ch))
           /\ Float(Current(got[k], ch)) >= Float(Last(loaded.games[k], ch))
           /\ DropsSent(k, ch) = {}

\* An alert was delivered for game k in this iteration.
Alerted(k) == \E p \in 1..Len(sent) : sent[p].key = k

\* This iteration and the one before both ran to their save, and game k had
\* records with the same current prices in both.
SameRecordTwice(k) ==
    /\ pc = "done" /\ outcome = "saved"
    /\ prev.saved
    /\ got[k] # NoRecord /\ prev.got[k] # NoRecord
    /\ \A ch \in Channels : Current(got[k], ch) = Current(prev.got[k], ch)

\* C2 as claimed: when two consecutive completed iterations fetch the same
\* record for a game, the second delivers no alert for it.
C2_SecondCycleSilent ==
    \A k \in AppIds : SameRecordTwice(k) => ~Alerted(k)

\* C2 as amended: ... provided the entry the second iteration loaded for the
\* game is the one the first saved.
C2_SecondCycleSilentOnSavedBaseline ==
    \A k \in AppIds :
        (/\ SameRecordTwice(k)
         /\ k \in DOMAIN loaded.games /\ k \in DOMAIN prev.data.games
         /\ loaded.games[k] = prev.data.games[k])
            => ~Alerted(k)

C2_Witness ==
    \E k \in AppIds :
        /\ SameRecordTwice(k)
        /\ loaded.games[k] = prev.data.games[k]
        /\ got[k] = 2
        /\ loaded.games[k].last_retail = P_4_99
        /\ loaded.games[k].historical_keyshops = P_9_00
        /\ ~Alerted(k)

\* C3 as claimed: a compared game whose fetched current price of a channel is
\* null or missing keeps the non-null stored price of that channel in the
\* document the iteration saves.
C3_NullKeepsBaseline ==
    (pc = "done" /\ outcome = "saved") =>
        \A k \in AppIds : \A ch \in Channels :
            (/\ Compared(k)
             /\ Current(got[k], ch) = None
             /\ Last(loaded.games[k], ch) # None)
                => Last(file.games[k], ch) = Last(loaded.games[k], ch)

\* C4: when an iteration has saved, every game it loaded that was absent from
\* the response of its batch has in the file the entry that was loaded, and
\* no alert was delivered for it.
C4_AbsentKeyUntouched ==
    (pc = "done" /\ outcome = "saved") =>
        \A k \in DOMAIN loaded.games :
            got[k] = NoRecord =>
                /\ k \in DOMAIN file.games
                /\ file.games[k] = loaded.games[k]
                /\ ~Alerted(k)

C4_Witness ==
    /\ pc = "done" /\ outcome = "saved"
    /\ \E k \in DOMAIN loaded.games : got[k] = NoRecord
    /\ \E k \in DOMAIN loaded.games : got[k] # NoRecord /\ file.games[k] # loaded.games[k]

\* C5 as claimed: no alert is delivered for a drop that was alerted before
\* while the file, and with it the baseline, was not written in between.
C5_NoRepeatedAlert ==
    \A p \in 1..Len(sent) : ~sent[p].repeat

\* A channel's price dropped, by the prices alone.
Lower(k, ch) ==
    /\ IsDecimal(Last(loaded.games[k], ch)) /\ IsDecimal(Current(got[k], ch))
    /\ Float(Current(got[k], ch)) < Float(Last(loaded.games[k], ch))

\* C6: in one iteration no game has two alerts; an alert carries at least one
\* drop, retail before keyshops, and both when both channels dropped; a
\* compared game with no drop has no alert.
C6_OneAlertPerGame ==
    /\ \A p, q \in 1..Len(sent) : sent[p].key = sent[q].key => p = q
    /\ \A p \in 1..Len(sent) :
           LET k == sent[p].key
               drops == sent[p].drops
           IN  /\ Len(drops) \in {1, 2}
               /\ Len(drops) = 2 =>
                      drops[1].channel = "retail" /\ drops[2].channel = "keyshops"
               /\ (Lower(k, "retail") /\ Lower(k, "keyshops")) => Len(drops) = 2
    /\ \A k \in AppIds :
           (Compared(k) /\ ~Lower(k, "retail") /\ ~Lower(k, "keyshops")) => ~Alerted(k)

C6_Witness ==
    \E p \in 1..Len(sent) :
        /\ Len(sent[p].drops) = 2
        /\ Lower(sent[p].key, "retail") /\ Lower(sent[p].key, "keyshops")
        /\ \E k \in AppIds : Compared(k) /\ ~Alerted(k)

\* The record fetch_prices hands watch_game for its key, NoRecord for none.
LookedUp(w, resp) == fetch_prices(<<w.key>>, resp).prices[w.key]

\* C7: a watch whose lookup returns normally with no record for the key
\* reports NotFound, calls no save and leaves the file as it was.
C7_NotFoundNoSave ==
    [][\A w \in watchers : \A resp \in HttpResponses({w.key}, offered) : \A ok \in BOOLEAN :
           (/\ ~fetch_prices(<<w.key>>, resp).raised
            /\ LookedUp(w, resp) = NoRecord
            /\ WatchReturn(w, resp, ok))
               => (reply' = Reply("watch", w.key, "NotFound", FALSE) /\ file' = file)]_vars

C7_Witness ==
    /\ reply.cmd = "watch" /\ reply.result = "NotFound"
    /\ file.order # <<>>

\* C8 as claimed: a watch that the source has a record for and that completes
\* while its key is in the file reports AlreadyWatched and leaves the key's
\* entry; an unwatch of a key not in the file reports NotWatched and calls no
\* save.
C8_WatchedEntryNeverReplaced ==
    [][/\ (/\ reply'.cmd = "watch"
           /\ reply'.result \in {"AlreadyWatched", "Watching"}
           /\ Has(file, reply'.key))
              => /\ reply'.result = "AlreadyWatched"
                 /\ Has(file', reply'.key)
                 /\ file'.games[reply'.key] = file.games[reply'.key]
       /\ (reply'.cmd = "unwatch" /\ ~Has(file, reply'.key))
              => (reply'.result = "NotWatched" /\ ~reply'.saved)]_vars

\* C8 as amended: a watch that loads a file holding its key reports
\* AlreadyWatched and calls no save; a watch that loaded the file without its
\* key and finds a record saves its own entry for the key, whatever the file
\* holds by then; an unwatch of a key not in the file reports NotWatched and
\* calls no save.
C8_MembershipTestedAtLoad ==
    [][/\ \A k \in AppIds :
              (WatchStart(k) /\ Has(file, k))
                  => (reply' = Reply("watch", k, "AlreadyWatched", FALSE) /\ file' = file)
       /\ \A w \in watchers : \A resp \in HttpResponses({w.key}, offered) :
              (/\ ~fetch_prices(<<w.key>>, resp).raised
               /\ LookedUp(w, resp) # NoRecord
               /\ WatchReturn(w, resp, TRUE))
                  => /\ reply' = Reply("watch", w.key, "Watching", TRUE)
                     /\ file'.games[w.key].added_by = w.author
                     /\ \A k \in DOMAIN file'.games \ {w.key} :
                            k \in DOMAIN w.data.games /\ file'.games[k] = w.data.games[k]
       /\ \A k \in AppIds : \A ok \in BOOLEAN :
              (Unwatch(k, ok) /\ ~Has(file, k))
                  => (reply' = Reply("unwatch", k, "NotWatched", FALSE) /\ file' = file)]_vars

\* A watch has just added its key while another watch of the same key is
\* still waiting for its lookup.
C8_Witness ==
    \E w \in watchers :
        /\ reply = Reply("watch", w.key, "Watching", TRUE)
        /\ Has(file, w.key)
        /\ file.games[w.key].added_by # w.author

\* C9 as claimed: every entry of the file has a name, a currency and a url.
C9_EntriesComplete ==
    \A k \in DOMAIN file.games :
        /\ file.games[k].name # None
        /\ file.games[k].currency # None
        /\ file.games[k].url # None

RECURSIVE Concat(_)
Concat(seqs) == IF seqs = <<>> THEN <<>> ELSE Head(seqs) \o Concat(Tail(seqs))

\* ceil(n / BatchLimit)
BatchesNeeded(n) == (n + BatchLimit - 1) \div BatchLimit

\* C10: every request of an iteration carries 1..BatchLimit keys; the
\* requests made so far are, in order, a prefix of the loaded keys; there is
\* one sleep between consecutive requests and no other; an iteration that
\* reaches its save has made ceil(n / BatchLimit) requests covering every key.
C10_Batching ==
    /\ \A r \in 1..Len(requests) : Len(requests[r]) \in 1..BatchLimit
    /\ Concat(requests) = SubSeq(data.order, 1, Len(Concat(requests)))
    /\ pc \in {"eval", "send", "sleep", "save"} => sleeps = Len(requests) - 1
    /\ (pc = "fetch" /\ requests # <<>>) => sleeps = Len(requests)
    /\ (pc = "save" \/ (pc = "done" /\ outcome = "saved")) =>
           /\ Len(requests) = BatchesNeeded(Len(data.order))
           /\ Concat(requests) = data.order
           /\ sleeps = BatchesNeeded(Len(data.order)) - 1

C10_Witness ==
    /\ pc = "done" /\ outcome = "saved"
    /\ Len(requests) = 2
    /\ Len(requests[1]) = BatchLimit
    /\ Len(requests[2]) < BatchLimit
    /\ sleeps = 1

\* C11: a price command leaves the file as it was and calls no save, for a
\* watched or an unwatched key and whatever the lookup returns.
C11_PriceLeavesFile ==
    [][\A k \in AppIds : \A resp \in HttpResponses({k}, offered) :
           CheckPrice(k, resp) => (file' = file /\ ~reply'.saved /\ alerted' = alerted)]_vars

\* A price command has shown the record of a key that is watched.
C11_Witness ==
    /\ reply = Reply("price", reply.key, "Price", FALSE)
    /\ Has(file, reply.key)

\* C12 as claimed: an alert is delivered in an iteration only after the
\* iteration's save, so an iteration that has delivered an alert has saved.
C12_AlertsAfterSave ==
    sent # <<>> => (pc = "done" /\ outcome = "saved")

\* C13 as claimed: the fetch of a batch does not end the iteration, whatever
\* it answers: the iteration goes on to that batch's games, to the next batch
\* or to its save.
C13_FetchFailureContained ==
    [][pc = "fetch" => pc' \in {"fetch", "eval", "sleep", "save"}]_vars

\* C14: a batch answered 429 does not end the iteration, which goes on to
\* the next batch or to its save; the games of such a batch keep the entries
\* that were loaded, in the iteration's document and in the file it saves,
\* and get no alert; and when the iteration after a saved one compares such a
\* game with a record lower than the baseline it loaded, the drop is alerted.
C14_RateLimitedBatchIsNoOp ==
    /\ [](\A k \in limited :
              /\ k \in DOMAIN data.games
              /\ data.games[k] = loaded.games[k]
              /\ ~Alerted(k)
              /\ (pc = "done" /\ outcome = "saved") =>
                     (k \in DOMAIN file.games /\ file.games[k] = loaded.games[k]))
    /\ [](\A k \in AppIds : \A ch \in Channels :
              (prev.saved /\ k \in prev.limited /\ Compared(k) /\ Lower(k, ch))
                  => DropsSent(k, ch) # {})
    /\ [][\A resp \in HttpResponses(Range(Batch(data.order, i)), offered) :
              (resp.status = 429 /\ FetchReturn(resp)) => pc' = "eval"]_vars
    /\ [][(pc = "eval" /\ Range(Batch(data.order, i)) \subseteq limited)
              => pc' \in {"eval", "sleep", "save"}]_vars

\* The iteration before saved after a 429 for game k's batch, and this one
\* loaded the entry that one saved and alerted k's retail drop.
C14_Witness ==
    /\ prev.saved
    /\ \E k \in prev.limited :
           /\ Compared(k)
           /\ Lower(k, "retail")
           /\ DropsSent(k, "retail") # {}
           /\ loaded.games[k] = prev.data.games[k]
    /\ \E k \in DOMAIN prev.data.games : k \notin prev.limited

\* C15: the save of an iteration writes the document the iteration loaded
\* and updated, so the file then has the keys that were loaded, whatever
\* commands saved since; and a watch that found a record writes the document
\* it loaded plus its key, whatever was saved during its lookup.
C15_LastWriterWins ==
    /\ [][Save(TRUE) =>
              /\ file' = data
              /\ file'.order = loaded.order
              /\ DOMAIN file'.games = DOMAIN loaded.games]_vars
    /\ [][\A w \in watchers : \A resp \in HttpResponses({w.key}, offered) :
              (/\ ~fetch_prices(<<w.key>>, resp).raised
               /\ LookedUp(w, resp) # NoRecord
               /\ WatchReturn(w, resp, TRUE))
                  => DOMAIN file'.games = DOMAIN w.data.games \cup {w.key}]_vars

\* An iteration is about to save while the file has other keys than it
\* loaded: a command loaded and saved since the iteration's load.
C15_Witness ==
    /\ pc = "save"
    /\ watchers = {}
    /\ DOMAIN file.games # DOMAIN loaded.games

\* A price that is there and that float() rejects.
Malformed(v) == Truthy(v) /\ Float(v) = ValueError

\* The other channel.
Other(ch) == IF ch = "retail" THEN "keyshops" ELSE "retail"

\* C17: a compared game with a malformed stored or fetched price in a channel
\* got no drop description of that channel, got the other channel's when that
\* one's price is lower, and has both fetched prices as its new baseline; the
\* comparison of a game never ends the iteration, and a batch is left only
\* when each of its games had its turn.
C17_MalformedPriceContained ==
    /\ [](\A k \in AppIds : \A ch \in Channels :
              (/\ Compared(k)
               /\ (Malformed(Last(loaded.games[k], ch)) \/ Malformed(Current(got[k], ch))))
                  => /\ DropsSent(k, ch) = {}
                     /\ Lower(k, Other(ch)) => Cardinality(DropsSent(k, Other(ch))) = 1
                     /\ \A c \in Channels : Last(data.games[k], c) = Current(got[k], c))
    /\ [][pc = "eval" => pc' \in {"eval", "send", "sleep", "save"}]_vars
    /\ [][(pc = "eval" /\ pc' \in {"sleep", "save"}) =>
              \A k \in Range(Batch(data.order, i)) : got[k] = prices[k]]_vars

\* A game with a malformed fetched retail price got its keyshops drop
\* alerted and the malformed price as retail baseline, and the game after it
\* in the batch was compared.
C17_Witness ==
    /\ pc \in {"sleep", "save"}
    /\ Len(Batch(data.order, i)) = 2
    /\ LET k == Batch(data.order, i)[1]
           n == Batch(data.order, i)[2]
       IN  /\ Compared(k)
           /\ Malformed(Current(got[k], "retail"))
           /\ Cardinality(DropsSent(k, "keyshops")) = 1
           /\ data.games[k].last_retail = P_bad
           /\ Compared(n)

\* C18: an iteration that loads an empty watchlist ends at once: it makes no
\* request, no save and no send, and the loop is back waiting for its tick.
C18_EmptyWatchlistNoWork ==
    /\ [][\A channelFound \in BOOLEAN :
              (file.order = <<>> /\ CycleStart(channelFound))
                  => /\ pc' = "done" /\ outcome' = "empty"
                     /\ file' = file /\ alerted' = alerted
                     /\ requests' = <<>> /\ sent' = <<>> /\ sleeps' = 0]_vars
    /\ [][(pc = "done" /\ outcome = "empty")
              => (pc' = "idle" /\ file' = file /\ alerted' = alerted)]_vars
    /\ []((pc = "done" /\ outcome = "empty")
              => (requests = <<>> /\ sent = <<>> /\ sleeps = 0 /\ file.order = <<>>))

\* An iteration found the watchlist empty after a command, and has returned.
C18_Witness ==
    /\ pc = "idle"
    /\ outcome = "empty"
    /\ ncycles > 0
    /\ ncmds > 0
    /\ file.order = <<>>

\* C19: an iteration that does not find the channel ends at once: it makes
\* no request, no save and no send and leaves the file as it was; and when
\* the iteration after it compares a game with a record lower than the
\* baseline it loaded, the drop is alerted, once.
C19_NoChannelNoWork ==
    /\ [][(file.order # <<>> /\ CycleStart(FALSE))
              => /\ pc' = "done" /\ outcome' = "nochannel"
                 /\ file' = file /\ alerted' = alerted
                 /\ requests' = <<>> /\ sent' = <<>> /\ sleeps' = 0]_vars
    /\ [][(pc = "done" /\ outcome = "nochannel")
              => (pc' = "idle" /\ file' = file /\ prev'.data = file)]_vars
    /\ [](\A k \in AppIds : \A ch \in Channels :
              (prev.nochannel /\ Compared(k) /\ Lower(k, ch))
                  => Cardinality(DropsSent(k, ch)) = 1)

\* The iteration before found no channel; this one loaded the entry that one
\* left for game k and alerted k's retail drop.
C19_Witness ==
    /\ prev.nochannel
    /\ \E k \in DOMAIN loaded.games :
           /\ k \in DOMAIN prev.data.games
           /\ loaded.games[k] = prev.data.games[k]
           /\ Compared(k)
           /\ Lower(k, "retail")
           /\ DropsSent(k, "retail") # {}

====
